---- MODULE Spec2Model ----
(***************************************************************************)
(* A model of mzml_writer: the document context (symbol table) that        *)
(* components register into and look references up in                      *)
(* (components.py), the vocabulary resolver (components.py), and the OBO   *)
(* parser and controlled vocabulary (controlled_vocabulary.py).            *)
(*                                                                         *)
(* Python values are tagged tuples, so that the integer 1, the string "1"  *)
(* and None are three different values: None, PyInt(n), PyStr(s).  A       *)
(* Python string is a sequence of one-character strings, so that upper(),  *)
(* lower(), strip(), partition() and "%s_%s" formatting are computed       *)
(* character by character.                                                 *)
(***************************************************************************)
EXTENDS Integers, Sequences, FiniteSets, TLC

VARIABLES
    context,      \* DocumentContext: type name -> SpecializedContextCache (key -> string)
    warnings,     \* warnings.warn channel: <<type_name, key>> -> number of diagnostics
    counter,      \* CountedType: tag name -> next value of the class's make_counter()
    entities,     \* the components constructed so far: [component, key, id]
    declared,     \* the <<entity_type, id>> pairs passed to ComponentDispatcher.register
    op,           \* the last call: its name, arguments, result and reference look-ups
    nops,         \* number of calls made on the document context
    vocabulary,   \* a ControlledVocabulary: its terms and its _names and _normalized indices
    cvcall,       \* the last ControlledVocabulary.__getitem__ call: key and result
    vocabularies, \* VocabularyResolver.vocabularies: the list of CV elements
    loaded,       \* the positions of the CV elements whose _vocabulary is loaded
    pcall,        \* the last VocabularyResolver call: arguments and result
    current_term, \* OBOParser.current_term
    heap,         \* the Entity objects the parser has made, in order of creation
    terms,        \* OBOParser.terms: id -> Entity (its position in heap)
    status,       \* where OBOParser.parse is: "parsing", "done" or the error raised
    nlines,       \* number of lines read from the handle
    lines,        \* the lines read from the handle so far, in order
    lists,        \* the list objects holding vocabularies; the first is default_cv_list
    contexts,     \* the DocumentContext objects; the first is NullMap
    owner,        \* for each entry <<context, type, key>>: the document it was last stored for
    mcall,        \* the last call made on behalf of a document
    ncalls        \* number of calls made on behalf of documents

docVars == <<context, warnings, counter, entities, declared, op, nops>>
cvVars == <<vocabulary, cvcall>>
resolverVars == <<vocabularies, loaded, pcall>>
oboVars == <<current_term, heap, terms, status, nlines, lines>>
moduleVars == <<lists, contexts, owner, mcall, ncalls>>

vars == <<docVars, cvVars, resolverVars, oboVars, moduleVars>>

(***************************************************************************)
(* Python values and strings                                               *)
(***************************************************************************)
None == <<"none">>
PyInt(n) == <<"int", n>>
PyStr(s) == <<"str", s>>
IsInt(v) == v[1] = "int"
IsStr(v) == v[1] = "str"

LowerLetters ==
    <<"a","b","c","d","e","f","g","h","i","j","k","l","m",
      "n","o","p","q","r","s","t","u","v","w","x","y","z">>
UpperLetters ==
    <<"A","B","C","D","E","F","G","H","I","J","K","L","M",
      "N","O","P","Q","R","S","T","U","V","W","X","Y","Z">>
Digits == <<"0","1","2","3","4","5","6","7","8","9">>

IndexIn(c, letters) ==
    IF \E i \in 1..Len(letters) : letters[i] = c
    THEN CHOOSE i \in 1..Len(letters) : letters[i] = c
    ELSE 0

\* str.upper() and str.lower(), one character at a time
ToUpper == [c \in {LowerLetters[i] : i \in 1..26} |-> UpperLetters[IndexIn(c, LowerLetters)]]
ToLower == [c \in {UpperLetters[i] : i \in 1..26} |-> LowerLetters[IndexIn(c, UpperLetters)]]
UpperChar(c) == IF c \in DOMAIN ToUpper THEN ToUpper[c] ELSE c
LowerChar(c) == IF c \in DOMAIN ToLower THEN ToLower[c] ELSE c
upper(s) == [i \in 1..Len(s) |-> UpperChar(s[i])]
lower(s) == [i \in 1..Len(s) |-> LowerChar(s[i])]

\* str(n) of a non-negative int: its decimal digits
RECURSIVE IntToStr(_)
IntToStr(n) == IF n < 10 THEN <<Digits[n + 1]>> ELSE IntToStr(n \div 10) \o <<Digits[(n % 10) + 1]>>

\* str(v) of a Python value
str(v) ==
    IF v = None THEN <<"N","o","n","e">>
    ELSE IF IsInt(v) THEN IntToStr(v[2])
    ELSE v[2]

\* a dict with one more item
Put(f, k, v) == [x \in (DOMAIN f) \cup {k} |-> IF x = k THEN v ELSE f[x]]
EmptyDict == <<>>

(***************************************************************************)
(* Names of the document's entity types: component names (the keys the     *)
(* components use in the context) and tag names (the names of their XML    *)
(* elements).                                                              *)
(***************************************************************************)
str_Software == <<"S","o","f","t","w","a","r","e">>
str_software == <<"s","o","f","t","w","a","r","e">>
str_Sample == <<"S","a","m","p","l","e">>
str_sample == <<"s","a","m","p","l","e">>
str_ScanSettings == <<"S","c","a","n","S","e","t","t","i","n","g","s">>
str_scanSettings == <<"s","c","a","n","S","e","t","t","i","n","g","s">>
str_SourceFile == <<"S","o","u","r","c","e","F","i","l","e">>
str_InstrumentConfiguration ==
    <<"I","n","s","t","r","u","m","e","n","t","C","o","n","f","i","g","u","r","a","t","i","o","n">>
str_instrumentConfiguration ==
    <<"i","n","s","t","r","u","m","e","n","t","C","o","n","f","i","g","u","r","a","t","i","o","n">>
str_processingMethod ==
    <<"p","r","o","c","e","s","s","i","n","g","M","e","t","h","o","d">>
str_run == <<"r","u","n">>

\* the tag name of each modelled component's element (the first argument of its _element call)
TagOf(component) ==
    CASE component = str_Software -> str_software
      [] component = str_Sample -> str_sample
      [] component = str_ScanSettings -> str_scanSettings
      [] component = str_SourceFile -> str_SourceFile
      [] component = str_InstrumentConfiguration -> str_instrumentConfiguration
      [] OTHER -> component

(***************************************************************************)
(* Bounds and input sets                                                   *)
(***************************************************************************)
MaxOps == 3          \* calls made on one document context

IntKeys == {PyInt(1)}
StrKeys == {PyStr(<<"a">>)}
Keys == IntKeys \cup StrKeys
RefKeys == {None} \cup Keys
\* entity types given to register() and to direct look-ups
TypeNames == {str_Software, str_software, str_Sample}

(***************************************************************************)
(* components.py: identifiers                                              *)
(***************************************************************************)
\* id_maker with the type name left out of the string
id_maker_without_type(type_name, id_number) == PyStr(<<"I","D","_">> \o str(id_number))

\* "%s_%s" % (type_name.upper(), str(id_number))
id_maker(type_name, id_number) == PyStr(upper(type_name) \o <<"_">> \o str(id_number))

\* the class counter of a tag type: starts at 1 (make_counter(start=1))
CounterValue(cnt, tag) == IF tag \in DOMAIN cnt THEN cnt[tag] ELSE 1

\* TagBase.__init__ followed by the id property: the element's id string and
\* the counters after the construction
TagBase_init(cnt, tag_name, id) ==
    IF id = None
    THEN [id |-> id_maker(tag_name, PyInt(CounterValue(cnt, tag_name))),
          counter |-> Put(cnt, tag_name, CounterValue(cnt, tag_name) + 1)]
    ELSE IF IsInt(id)
    THEN [id |-> id_maker(tag_name, id), counter |-> cnt]
    ELSE [id |-> id, counter |-> cnt]

(***************************************************************************)
(* components.py: the document context                                     *)
(***************************************************************************)
\* DocumentContext.__missing__: context[key] creates the type's cache
DocumentContext_missing(ctx, type_name) ==
    IF type_name \in DOMAIN ctx THEN ctx ELSE Put(ctx, type_name, EmptyDict)

\* SpecializedContextCache.__getitem__: the value returned, the cache after
\* the call, whether a warning was emitted and whether an item was stored
SpecializedContextCache_getitem(cache, type_name, key) ==
    IF key \in DOMAIN cache
    THEN [ret |-> cache[key], cache |-> cache, warned |-> FALSE, stored |-> FALSE]
    ELSE IF key = None
    THEN [ret |-> None, cache |-> cache, warned |-> FALSE, stored |-> FALSE]
    ELSE [ret |-> id_maker(type_name, key),
          cache |-> Put(cache, key, id_maker(type_name, key)),
          warned |-> TRUE, stored |-> TRUE]

\* context[type_name][key]
Reference(ctx, type_name, key) ==
    LET c1 == DocumentContext_missing(ctx, type_name)
        r == SpecializedContextCache_getitem(c1[type_name], type_name, key)
    IN [ctx |-> [c1 EXCEPT ![type_name] = r.cache],
        ref |-> [type |-> type_name, key |-> key, ret |-> r.ret,
                 warned |-> r.warned, stored |-> r.stored]]

\* context[type_name][key] = value
SetItem(ctx, type_name, key, value) ==
    LET c1 == DocumentContext_missing(ctx, type_name)
    IN [c1 EXCEPT ![type_name] = Put(c1[type_name], key, value)]

\* the warnings channel after the look-ups of one call
Warn(w, refs) ==
    LET warnedPairs == {<<refs[i].type, refs[i].key>> : i \in {j \in 1..Len(refs) : refs[j].warned}}
    IN [p \in (DOMAIN w) \cup warnedPairs |->
            (IF p \in DOMAIN w THEN w[p] ELSE 0)
            + Cardinality({j \in 1..Len(refs) : refs[j].warned /\ <<refs[j].type, refs[j].key>> = p})]

Call(name, type, key, ret, refs) ==
    [name |-> name, type |-> type, key |-> key, ret |-> ret, refs |-> refs]

\* the parts of the state a specification does not use stay as they are here
NoDocument ==
    /\ context = EmptyDict /\ warnings = EmptyDict /\ counter = EmptyDict
    /\ entities = {} /\ declared = {} /\ op = <<>> /\ nops = 0
NoVocabulary == vocabulary = <<>> /\ cvcall = <<>>
NoResolver == vocabularies = <<>> /\ loaded = {} /\ pcall = <<>>
NoParser ==
    /\ current_term = None /\ heap = <<>> /\ terms = EmptyDict
    /\ status = "idle" /\ nlines = 0 /\ lines = <<>>
NoModule ==
    /\ lists = <<>> /\ contexts = <<>> /\ owner = EmptyDict
    /\ mcall = <<>> /\ ncalls = 0

Init ==
    /\ NoVocabulary /\ NoResolver /\ NoParser /\ NoModule
    /\ context = EmptyDict
    /\ warnings = EmptyDict
    /\ counter = EmptyDict
    /\ entities = {}
    /\ declared = {}
    /\ op = Call("init", <<>>, None, None, <<>>)
    /\ nops = 0

\* ComponentDispatcher.register(entity_type, id)
register(entity_type, id) ==
    /\ nops < MaxOps
    /\ context' = SetItem(context, entity_type, id, id_maker(entity_type, id))
    /\ declared' = declared \cup {<<entity_type, id>>}
    /\ op' = Call("register", entity_type, id, id_maker(entity_type, id), <<>>)
    /\ nops' = nops + 1
    /\ UNCHANGED <<warnings, counter, entities>>
    /\ UNCHANGED <<cvVars, resolverVars, oboVars, moduleVars>>

\* a reference look-up context[type_name][key] made directly
lookup(type_name, key) ==
    LET r == Reference(context, type_name, key)
    IN /\ nops < MaxOps
       /\ context' = r.ctx
       /\ warnings' = Warn(warnings, <<r.ref>>)
       /\ op' = Call("lookup", type_name, key, r.ref.ret, <<r.ref>>)
       /\ nops' = nops + 1
       /\ UNCHANGED <<counter, entities, declared>>
       /\ UNCHANGED <<cvVars, resolverVars, oboVars, moduleVars>>

Entity(component, key, id) == [component |-> component, key |-> key, id |-> id]

\* Software(id=id, context=context)
Software(id) ==
    LET el == TagBase_init(counter, str_software, id)
    IN /\ nops < MaxOps
       /\ context' = SetItem(context, str_Software, id, el.id)
       /\ counter' = el.counter
       /\ entities' = entities \cup {Entity(str_Software, id, el.id)}
       /\ op' = Call("Software", str_Software, id, el.id, <<>>)
       /\ nops' = nops + 1
       /\ UNCHANGED <<warnings, declared>>
       /\ UNCHANGED <<cvVars, resolverVars, oboVars, moduleVars>>

\* Sample(name, id=id, context=context)
Sample(id) ==
    LET el == TagBase_init(counter, str_sample, id)
    IN /\ nops < MaxOps
       /\ counter' = el.counter
       /\ entities' = entities \cup {Entity(str_Sample, id, el.id)}
       /\ op' = Call("Sample", str_Sample, id, el.id, <<>>)
       /\ nops' = nops + 1
       /\ UNCHANGED <<context, warnings, declared>>
       /\ UNCHANGED <<cvVars, resolverVars, oboVars, moduleVars>>

\* ScanSettings(id=id, context=context)
ScanSettings(id) ==
    LET el == TagBase_init(counter, str_scanSettings, id)
    IN /\ nops < MaxOps
       /\ context' = SetItem(context, str_ScanSettings, id, el.id)
       /\ counter' = el.counter
       /\ entities' = entities \cup {Entity(str_ScanSettings, id, el.id)}
       /\ op' = Call("ScanSettings", str_ScanSettings, id, el.id, <<>>)
       /\ nops' = nops + 1
       /\ UNCHANGED <<warnings, declared>>
       /\ UNCHANGED <<cvVars, resolverVars, oboVars, moduleVars>>

\* InstrumentConfiguration(scan_settings_reference, id,
\*                         software_reference=software_reference, context=context)
InstrumentConfiguration(scan_settings_reference, id, software_reference) ==
    LET r1 == Reference(context, str_Software, software_reference)
        r2 == Reference(r1.ctx, str_ScanSettings, scan_settings_reference)
        el == TagBase_init(counter, str_instrumentConfiguration, id)
    IN /\ nops < MaxOps
       /\ context' = r2.ctx
       /\ warnings' = Warn(warnings, <<r1.ref, r2.ref>>)
       /\ counter' = el.counter
       /\ entities' = entities \cup {Entity(str_InstrumentConfiguration, id, el.id)}
       /\ op' = Call("InstrumentConfiguration", str_InstrumentConfiguration, id, el.id,
                     <<r1.ref, r2.ref>>)
       /\ nops' = nops + 1
       /\ UNCHANGED declared
       /\ UNCHANGED <<cvVars, resolverVars, oboVars, moduleVars>>

\* ProcessingMethod(order, software_reference, context=context)
ProcessingMethod(software_reference) ==
    LET r1 == Reference(context, str_Software, software_reference)
        el == TagBase_init(counter, str_processingMethod, None)
    IN /\ nops < MaxOps
       /\ context' = r1.ctx
       /\ warnings' = Warn(warnings, <<r1.ref>>)
       /\ counter' = el.counter
       /\ entities' = entities \cup {Entity(str_processingMethod, None, el.id)}
       /\ op' = Call("ProcessingMethod", str_processingMethod, None, el.id, <<r1.ref>>)
       /\ nops' = nops + 1
       /\ UNCHANGED declared
       /\ UNCHANGED <<cvVars, resolverVars, oboVars, moduleVars>>

\* Run(default_instrument_configuration_reference, id=id,
\*     default_source_file_reference=..., sample_reference=..., context=context)
Run(default_instrument_configuration_reference, id, default_source_file_reference, sample_reference) ==
    LET r1 == Reference(context, str_Sample, sample_reference)
        r2 == Reference(r1.ctx, str_InstrumentConfiguration,
                        default_instrument_configuration_reference)
        r3 == Reference(r2.ctx, str_SourceFile, default_source_file_reference)
        el == TagBase_init(counter, str_run, id)
    IN /\ nops < MaxOps
       /\ context' = r3.ctx
       /\ warnings' = Warn(warnings, <<r1.ref, r2.ref, r3.ref>>)
       /\ counter' = el.counter
       /\ entities' = entities \cup {Entity(str_run, id, el.id)}
       /\ op' = Call("Run", str_run, id, el.id, <<r1.ref, r2.ref, r3.ref>>)
       /\ nops' = nops + 1
       /\ UNCHANGED declared
       /\ UNCHANGED <<cvVars, resolverVars, oboVars, moduleVars>>

Next ==
    \/ \E t \in TypeNames, k \in IntKeys : register(t, k)
    \/ \E t \in TypeNames, k \in RefKeys : lookup(t, k)
    \/ \E k \in RefKeys : Software(k)
    \/ \E k \in RefKeys : Sample(k)
    \/ \E k \in {None} \cup IntKeys : ScanSettings(k)
    \/ \E ss \in {None} \cup IntKeys, k \in IntKeys, sw \in RefKeys :
            InstrumentConfiguration(ss, k, sw)
    \/ \E sw \in RefKeys : ProcessingMethod(sw)
    \/ \E ic \in IntKeys, sm \in RefKeys : Run(ic, None, None, sm)

Spec == Init /\ [][Next]_vars

(***************************************************************************)
(* Claims about the document context                                       *)
(***************************************************************************)
\* the look-ups of the last call, and those made by a component's constructor
Refs == {op.refs[i] : i \in 1..Len(op.refs)}
ComponentRefs == IF op.name = "lookup" THEN {} ELSE Refs
HasEntry(t, k) == t \in DOMAIN context /\ k \in DOMAIN context[t]
\* the entry is a string made by id_maker for its own type and key, as
\* register() and placeholder synthesis make it
Generated(t, k) == HasEntry(t, k) /\ context[t][k] = id_maker(t, k)

\* C1: once a string is stored for an (entity type, key) pair, every later
\* state stores the same string for that pair.
C1_StoredStringNeverChanges ==
    [][\A t \in DOMAIN context : \A k \in DOMAIN context[t] :
            /\ t \in DOMAIN context'
            /\ k \in DOMAIN context'[t]
            /\ context'[t][k] = context[t][k]]_vars

\* C2: once a look-up of an unregistered key (t, k) has synthesized a
\* placeholder (which is when a diagnostic for (t, k) exists), exactly one
\* diagnostic was emitted for (t, k), the placeholder is stored, and that
\* look-up and every later look-up or register of (t, k) returns id_maker(t, k).
C2_PlaceholderIsPermanent ==
    \A p \in DOMAIN warnings :
        /\ warnings[p] = 1
        /\ HasEntry(p[1], p[2])
        /\ (op.name = "register" /\ op.type = p[1] /\ op.key = p[2])
                => op.ret = id_maker(p[1], p[2])
        /\ \A r \in Refs : (r.type = p[1] /\ r.key = p[2]) => r.ret = id_maker(p[1], p[2])

\* C6: every look-up of the key None returns None, emits no diagnostic and
\* stores nothing.
C6_SentinelLookup ==
    \A r \in Refs : r.key = None => (r.ret = None /\ ~r.warned /\ ~r.stored)

\* C7 as claimed: for any two different entity-type names and any key, the
\* strings generated for the two are different, and a look-up or register
\* under one name never returns the string generated under the other.
C7_DifferentNamesDifferentStrings ==
    \A t1 \in DOMAIN context, t2 \in DOMAIN context :
        t1 # t2 =>
            /\ \A k \in (DOMAIN context[t1]) \cap (DOMAIN context[t2]) :
                    (Generated(t1, k) /\ Generated(t2, k)) => context[t1][k] # context[t2][k]
            /\ (op.name \in {"register", "lookup"} /\ op.type = t2 /\ Generated(t1, op.key))
                    => op.ret # context[t1][op.key]

\* C7 as amended: the same for two entity-type names that differ in more
\* than letter case (their upper-cased forms differ).
C7_NamespaceSeparation ==
    \A t1 \in DOMAIN context, t2 \in DOMAIN context :
        upper(t1) # upper(t2) =>
            /\ \A k \in (DOMAIN context[t1]) \cap (DOMAIN context[t2]) :
                    (Generated(t1, k) /\ Generated(t2, k)) => context[t1][k] # context[t2][k]
            /\ (op.name \in {"register", "lookup"} /\ op.type = t2 /\ Generated(t1, op.key))
                    => op.ret # context[t1][op.key]

\* two namespaces whose names differ in more than case hold generated
\* strings for the same key, the second just registered or looked up
C7_Witness ==
    /\ op.name \in {"register", "lookup"}
    /\ op.key # None
    /\ \E t1 \in DOMAIN context :
            /\ upper(t1) # upper(op.type)
            /\ Generated(t1, op.key)
            /\ Generated(op.type, op.key)

\* the components other components refer to
Referenceable == {str_Software, str_Sample, str_ScanSettings, str_InstrumentConfiguration}

\* C8: every referenceable entity constructed with id k has its identifier
\* stored under (its type, k), and a component constructed afterwards that
\* refers to k gets that identifier without a diagnostic.
C8_SelfRegistration ==
    \A e \in entities :
        (e.component \in Referenceable /\ e.key # None) =>
            /\ HasEntry(e.component, e.key) /\ context[e.component][e.key] = e.id
            /\ \A r \in ComponentRefs :
                    (r.type = e.component /\ r.key = e.key) => (r.ret = e.id /\ ~r.warned)

\* C9: after register(entity_type, id), with entity_type the component name
\* or the tag name of an entity, every reference look-up of that entity made
\* by a component returns the registered string without a diagnostic.
C9_PreDeclaration ==
    \A d \in declared : \A r \in ComponentRefs :
        (r.key = d[2] /\ (d[1] = r.type \/ d[1] = TagOf(r.type)))
            => (r.ret = id_maker(d[1], d[2]) /\ ~r.warned)
(***************************************************************************)
(* controlled_vocabulary.py: ControlledVocabulary                          *)
(*                                                                         *)
(* A term is [id, name]; ids and names are strings.  The vocabulary is     *)
(* [terms, names, normalized, id]: the dict of terms by id and the two     *)
(* indices __init__ derives from it.                                       *)
(***************************************************************************)
MaxTerms == 2        \* terms of a vocabulary

str_M1 == <<"M",":","1">>
str_M2 == <<"M",":","2">>
str_Ab == <<"A","b">>
str_ab == <<"a","b">>
str_AB == <<"A","B">>
str_aB == <<"a","B">>
str_mz == <<"m","z">>
str_zz == <<"z","z">>

\* the accessions and names the terms are drawn from ("Ab" is both), and the keys looked up
TermIds == {str_M1, str_M2, str_Ab}
TermNames == {str_Ab, str_ab, str_AB, str_mz}
LookupKeys == TermIds \cup TermNames \cup {str_aB, str_zz}

Term(id, name) == [id |-> id, name |-> name]
\* the dicts id -> term that OBOParser.terms can be
TermDicts ==
    UNION {[ids -> TermNames] : ids \in {x \in SUBSET TermIds : Cardinality(x) <= MaxTerms}}
\* the orders in which a dict of these ids can be iterated
Orders(ids) ==
    {o \in [1..Cardinality(ids) -> ids] : \A i, j \in 1..Cardinality(ids) : o[i] = o[j] => i = j}

\* {v['name']: v for v in terms.values()}, values taken in the given order
RECURSIVE NamesIndex(_, _)
NamesIndex(termlist, index) ==
    IF termlist = <<>> THEN index
    ELSE NamesIndex(Tail(termlist), Put(index, Head(termlist).name, Head(termlist)))

\* {v['name'].lower(): v['name'] for v in terms.values()}, in the same order
RECURSIVE NormalizedIndex(_, _)
NormalizedIndex(termlist, index) ==
    IF termlist = <<>> THEN index
    ELSE NormalizedIndex(Tail(termlist),
                         Put(index, lower(Head(termlist).name), Head(termlist).name))

\* ControlledVocabulary.__init__(terms, id); order is the iteration order of terms
ControlledVocabulary_init(termdict, order, id) ==
    LET values == [i \in 1..Len(order) |-> Term(order[i], termdict[order[i]])]
    IN [terms |-> [i \in DOMAIN termdict |-> Term(i, termdict[i])],
        names |-> NamesIndex(values, EmptyDict),
        normalized |-> NormalizedIndex(values, EmptyDict),
        id |-> id]

Found(term) == [kind |-> "term", term |-> term]
Raised(error) == [kind |-> error, term |-> Term(<<>>, <<>>)]

\* ControlledVocabulary.__getitem__ consulting the name index before the ids
ControlledVocabulary_getitem_names_first(cv, key) ==
    IF ~IsStr(key) THEN Raised("AttributeError")
    ELSE IF key[2] \in DOMAIN cv.names THEN Found(cv.names[key[2]])
    ELSE IF key[2] \in DOMAIN cv.terms THEN Found(cv.terms[key[2]])
    ELSE IF lower(key[2]) \in DOMAIN cv.normalized
    THEN Found(cv.names[cv.normalized[lower(key[2])]])
    ELSE Raised("KeyError")

\* ControlledVocabulary.__getitem__(key), normalize_name included: the term
\* found, or the error raised (name.lower() of a key that is no string is an
\* AttributeError)
ControlledVocabulary_getitem(cv, key) ==
    IF IsStr(key) /\ key[2] \in DOMAIN cv.terms THEN Found(cv.terms[key[2]])
    ELSE IF IsStr(key) /\ key[2] \in DOMAIN cv.names THEN Found(cv.names[key[2]])
    ELSE IF ~IsStr(key) THEN Raised("AttributeError")
    ELSE IF lower(key[2]) \in DOMAIN cv.normalized
    THEN Found(cv.names[cv.normalized[lower(key[2])]])
    ELSE Raised("KeyError")

InitCV ==
    /\ NoDocument /\ NoResolver /\ NoParser /\ NoModule
    /\ \E termdict \in TermDicts : \E order \in Orders(DOMAIN termdict) :
            vocabulary = ControlledVocabulary_init(termdict, order, None)
    /\ cvcall = [key |-> None, result |-> Raised("none")]

\* vocabulary[key]
getitem(key) ==
    /\ cvcall' = [key |-> key, result |-> ControlledVocabulary_getitem(vocabulary, key)]
    /\ UNCHANGED <<vocabulary, docVars, resolverVars, oboVars, moduleVars>>

NextCV == \E key \in LookupKeys : getitem(PyStr(key))

SpecCV == InitCV /\ [][NextCV]_vars

(***************************************************************************)
(* Claims about the controlled vocabulary                                  *)
(***************************************************************************)
AllTerms == {vocabulary.terms[i] : i \in DOMAIN vocabulary.terms}
Looked == cvcall.key # None

\* C10: a key that is the id of a term returns that term; otherwise a key
\* that is the name of a term returns a term with that name; otherwise a
\* key whose lower-cased form is the lower-cased name of a term returns such
\* a term, the one a look-up of its exact name returns (when that name is
\* not itself an id); otherwise the look-up fails with KeyError.
C10_LookupPrecedence ==
    Looked =>
        LET key == cvcall.key[2]
            r == cvcall.result
        IN IF \E t \in AllTerms : t.id = key
           THEN r.kind = "term" /\ r.term \in AllTerms /\ r.term.id = key
           ELSE IF \E t \in AllTerms : t.name = key
           THEN r.kind = "term" /\ r.term \in AllTerms /\ r.term.name = key
           ELSE IF \E t \in AllTerms : lower(t.name) = lower(key)
           THEN /\ r.kind = "term" /\ r.term \in AllTerms
                /\ lower(r.term.name) = lower(key)
                /\ (\A t \in AllTerms : t.id # r.term.name)
                        => ControlledVocabulary_getitem(vocabulary, PyStr(r.term.name)) = r
           ELSE r.kind = "KeyError"

\* a key that is the name of one term and the id of another was looked up
C10_Witness ==
    /\ Looked
    /\ \E t1 \in AllTerms, t2 \in AllTerms :
            t1.id = cvcall.key[2] /\ t2.name = cvcall.key[2] /\ t1 # t2
    /\ cvcall.result.kind = "term"
(***************************************************************************)
(* components.py: CVParam, UserParam, CV and VocabularyResolver            *)
(*                                                                         *)
(* A dict of keyword arguments or a mapping is a function from names       *)
(* (TLA+ strings) to Python values.  A parameter element is [tag, attrs].  *)
(***************************************************************************)
MaxVocabularies == 2     \* CV elements in a resolver's list
MaxCalls == 1            \* calls made on one resolver

Get(d, k) == IF k \in DOMAIN d THEN d[k] ELSE None          \* dict.get(k)
SetDefault(d, k, v) == IF k \in DOMAIN d THEN d ELSE Put(d, k, v)
Without(d, ks) == [k \in (DOMAIN d) \ ks |-> d[k]]
Update(d, e) == [k \in (DOMAIN d) \cup (DOMAIN e) |-> IF k \in DOMAIN e THEN e[k] ELSE d[k]]
\* the truth value of a Python value, and Python's `a or b`
Truthy(v) == v # None /\ v # PyInt(0) /\ v # PyStr(<<>>)
Or(a, b) == IF Truthy(a) THEN a ELSE b

PyDict(d) == <<"dict", d>>
PyParam(p) == <<"param", p>>
IsDict(v) == v[1] = "dict"
IsParam(v) == v[1] = "param"

\* CVParam.patch_accession leaving an int accession as it is
patch_accession_keeps_int(attrs, accession, ref) ==
    IF accession = None THEN attrs ELSE Put(attrs, "accession", accession)

\* CVParam.patch_accession: "%s:%d" % (ref, accession) for an int accession
patch_accession(attrs, accession, ref) ==
    IF accession = None THEN attrs
    ELSE IF IsInt(accession)
    THEN Put(attrs, "accession", PyStr(str(ref) \o <<":">> \o str(accession)))
    ELSE Put(attrs, "accession", accession)

\* CVParam.__init__ leaving the value attribute empty whatever value is given
CVParam_init_without_value(tag_name, kwargs) ==
    [tag |-> tag_name,
     attrs |-> Put(Without(kwargs, {"accession", "ref", "value", "id"}), "value", PyStr(<<>>))]

\* CVParam.__init__(**kwargs) (UserParam inherits it): the element's attrs
CVParam_init(tag_name, kwargs) ==
    LET accession == Get(kwargs, "accession")
        name == Get(kwargs, "name")
        ref == Get(kwargs, "ref")
        value == Get(kwargs, "value")
        a0 == Without(kwargs, {"accession", "name", "ref", "value", "id"})
        a1 == IF ref # None THEN Put(a0, "cvRef", ref) ELSE a0
        a2 == IF accession # None THEN Put(a1, "accession", accession) ELSE a1
        a3 == IF name # None THEN Put(a2, "name", name) ELSE a2
        a4 == IF value # None THEN Put(a3, "value", value) ELSE Put(a3, "value", PyStr(<<>>))
    IN [tag |-> tag_name, attrs |-> patch_accession(a4, accession, ref)]

\* a CV element with its ontology: fetch says whether CV.load() can get it
CV(id, vocab, fetch) == [id |-> id, vocabulary |-> vocab, fetch |-> fetch]

\* CV.__getitem__(key): load the vocabulary if need be, then look the key up
CV_getitem(cv, key) ==
    IF cv.fetch # "ok" THEN Raised("IOError")
    ELSE ControlledVocabulary_getitem(cv.vocabulary, key)

\* the mapping form of VocabularyResolver.param (lines 374-381)
Destructure(name, value, cv_ref, kwargs) ==
    IF IsDict(name)
    THEN LET mapping == name[2]
         IN [name |-> Get(mapping, "name"),
             value |-> Or(value, Get(mapping, "value")),
             accession |-> Or(Get(kwargs, "accession"), Get(mapping, "accession")),
             cv_ref |-> Or(Or(cv_ref, Get(mapping, "cv_ref")), Get(mapping, "cvRef")),
             kwargs |-> Update(kwargs, Without(mapping, {"name", "value", "accession"}))]
    ELSE [name |-> name, value |-> value, accession |-> Get(kwargs, "accession"),
          cv_ref |-> cv_ref, kwargs |-> kwargs]

\* the loop over self.vocabularies of VocabularyResolver.param (lines 384-391),
\* from the i-th vocabulary on: st is [name, accession, cv_ref]
RECURSIVE ResolveLoop(_, _, _)
ResolveLoop(vocabs, i, st) ==
    IF i > Len(vocabs) THEN st
    ELSE LET r == CV_getitem(vocabs[i], st.name)
         IN ResolveLoop(vocabs, i + 1,
                IF r.kind = "term"
                THEN [name |-> PyStr(r.term.name), accession |-> PyStr(r.term.id),
                      cv_ref |-> vocabs[i].id]
                ELSE st)

\* VocabularyResolver.param(name, value, cv_ref, **kwargs): the parameter returned
VocabularyResolver_param(vocabs, name, value, cv_ref, kwargs) ==
    IF IsParam(name) THEN name[2]
    ELSE LET d == Destructure(name, value, cv_ref, kwargs)
             st == IF d.cv_ref = None
                   THEN ResolveLoop(vocabs, 1, [name |-> d.name, accession |-> d.accession,
                                                cv_ref |-> d.cv_ref])
                   ELSE [name |-> d.name, accession |-> d.accession, cv_ref |-> d.cv_ref]
             kw == Update(d.kwargs, [k \in {"name", "value"} |->
                                        IF k = "name" THEN st.name ELSE d.value])
         IN IF st.cv_ref = None
            THEN CVParam_init("userParam", kw)
            ELSE CVParam_init("cvParam",
                     SetDefault(SetDefault(kw, "ref", st.cv_ref), "accession", st.accession))

\* an exception raised with an argument: KeyError(name)
RaisedWith(error, arg) == [kind |-> error, term |-> Term(<<>>, <<>>), arg |-> arg]

\* VocabularyResolver.term returning the term of the last vocabulary that has it
RECURSIVE VocabularyResolver_term_last(_, _, _)
VocabularyResolver_term_last(vocabs, i, name) ==
    IF i > Len(vocabs) THEN RaisedWith("KeyError", name)
    ELSE LET rest == VocabularyResolver_term_last(vocabs, i + 1, name)
         IN IF rest.kind = "term" THEN rest
            ELSE IF CV_getitem(vocabs[i], name).kind = "term" THEN CV_getitem(vocabs[i], name)
            ELSE rest

\* VocabularyResolver.term(name): the first vocabulary's term, or KeyError(name)
RECURSIVE VocabularyResolver_term(_, _, _)
VocabularyResolver_term(vocabs, i, name) ==
    IF i > Len(vocabs) THEN RaisedWith("KeyError", name)
    ELSE LET r == CV_getitem(vocabs[i], name)
         IN IF r.kind = "term" THEN r ELSE VocabularyResolver_term(vocabs, i + 1, name)

\* the position of the vocabulary VocabularyResolver.term returns from (0: none)
RECURSIVE FirstMatch(_, _, _)
FirstMatch(vocabs, i, name) ==
    IF i > Len(vocabs) THEN 0
    ELSE IF CV_getitem(vocabs[i], name).kind = "term" THEN i
    ELSE FirstMatch(vocabs, i + 1, name)

str_cvParam == <<"c","v","P","a","r","a","m">>
str_userParam == <<"u","s","e","r","P","a","r","a","m">>
str_ion == <<"i","o","n">>
str_Ion == <<"I","o","n">>
str_A1 == <<"A",":","1">>
str_B1 == <<"B",":","1">>
str_B2 == <<"B",":","2">>

\* the CV elements the lists are made of: two ontologies that both name an
\* ion term, and one whose ontology cannot be fetched
CVElements ==
    { CV(PyStr(<<"A">>),
         ControlledVocabulary_init([i \in {str_A1} |-> str_Ion], <<str_A1>>, PyStr(<<"A">>)),
         "ok"),
      CV(PyStr(<<"B">>),
         ControlledVocabulary_init((str_B1 :> str_ion) @@ (str_B2 :> str_mz),
                                   <<str_B1, str_B2>>, PyStr(<<"B">>)),
         "ok"),
      CV(PyStr(<<"X">>),
         ControlledVocabulary_init([i \in {str_A1} |-> str_Ion], <<str_A1>>, PyStr(<<"X">>)),
         "fail") }
VocabularyLists == UNION {[1..n -> CVElements] : n \in 0..MaxVocabularies}

\* the arguments the calls are drawn from
ParamNames == {PyStr(str_ion), PyStr(str_Ion), PyStr(str_mz), PyStr(str_zz)}
MappingItems ==
    { [name |-> PyStr(str_ion), value |-> None, accession |-> None, cv_ref |-> None],
      [name |-> PyStr(str_ion), value |-> None, accession |-> PyStr(<<"Q",":","1">>), cv_ref |-> None],
      [name |-> PyStr(str_ion), value |-> None, accession |-> None, cv_ref |-> PyStr(<<"B">>)],
      [name |-> PyStr(str_zz), value |-> PyInt(3), accession |-> None, cv_ref |-> None],
      [name |-> None, value |-> PyInt(3), accession |-> None, cv_ref |-> None] }
\* a mapping holds the items that are given (not None here)
Mapping(items) ==
    [k \in {x \in {"name", "value", "accession", "cv_ref"} : items[x] # None} |-> items[k]]
Mappings == {PyDict(Mapping(items)) : items \in MappingItems}
ReadyParam ==
    PyParam(CVParam_init("cvParam",
        [k \in {"name", "accession", "ref"} |->
            CASE k = "name" -> PyStr(str_mz) [] k = "accession" -> PyStr(str_B2)
              [] OTHER -> PyStr(<<"B">>)]))
ParamValues == {None, PyInt(0), PyInt(5)}
ParamRefs == {None, PyStr(<<"A">>)}
ParamKwargs ==
    { EmptyDict,
      [k \in {"accession"} |-> PyStr(<<"Z",":","9">>)],
      [k \in {"accession"} |-> PyInt(7)],
      [k \in {"ref"} |-> PyStr(<<"R">>)] }

MappingKwargs == {EmptyDict, [k \in {"accession"} |-> PyStr(<<"Z",":","9">>)]}

NoCall == [op |-> "none", n |-> 0]

InitResolver ==
    /\ NoDocument /\ NoVocabulary /\ NoParser /\ NoModule
    /\ vocabularies \in VocabularyLists
    /\ loaded = {}
    /\ pcall = NoCall

\* the state after param has returned result: the call is recorded, the
\* element constructed has taken the next value of its class's counter
\* (TagBase.__init__ without id), and a resolution has loaded the vocabularies
Returned(name, value, cv_ref, kwargs, result) ==
    /\ pcall' = [op |-> "param", n |-> pcall.n + 1, name |-> name, value |-> value,
                 cv_ref |-> cv_ref, kwargs |-> kwargs, result |-> result]
    /\ counter' = IF IsParam(name) THEN counter
                  ELSE TagBase_init(counter, IF result.tag = "cvParam" THEN str_cvParam
                                             ELSE str_userParam, None).counter
    /\ loaded' = IF ~IsParam(name) /\ Destructure(name, value, cv_ref, kwargs).cv_ref = None
                 THEN loaded \cup {i \in 1..Len(vocabularies) : vocabularies[i].fetch = "ok"}
                 ELSE loaded

\* context.param(name, value, cv_ref, **kwargs)
param(name, value, cv_ref, kwargs) ==
    /\ pcall.n < MaxCalls
    /\ Returned(name, value, cv_ref, kwargs,
                VocabularyResolver_param(vocabularies, name, value, cv_ref, kwargs))
    /\ UNCHANGED <<vocabularies, context, warnings, entities, declared, op, nops, cvVars, oboVars, moduleVars>>

\* context.term(name)
term(name) ==
    LET first == FirstMatch(vocabularies, 1, name)
    IN /\ pcall.n < MaxCalls
       /\ pcall' = [op |-> "term", n |-> pcall.n + 1, name |-> name,
                    result |-> VocabularyResolver_term(vocabularies, 1, name)]
       /\ loaded' = loaded \cup
                {i \in 1..Len(vocabularies) :
                    vocabularies[i].fetch = "ok" /\ (first = 0 \/ i <= first)}
       /\ UNCHANGED <<vocabularies, docVars, cvVars, oboVars, moduleVars>>

\* a string name comes with every keyword, a mapping with an accession
\* keyword or none, a parameter that is ready with no other argument
NextResolver ==
    \/ \E name \in ParamNames, value \in ParamValues, cv_ref \in ParamRefs,
          kwargs \in ParamKwargs : param(name, value, cv_ref, kwargs)
    \/ \E name \in Mappings, value \in ParamValues, cv_ref \in ParamRefs,
          kwargs \in MappingKwargs : param(name, value, cv_ref, kwargs)
    \/ param(ReadyParam, None, None, EmptyDict)
    \/ \E name \in ParamNames : term(name)

SpecResolver == InitResolver /\ [][NextResolver]_vars

(***************************************************************************)
(* controlled_vocabulary.py: Reference, Relationship, Entity and OBOParser *)
(*                                                                         *)
(* A field value of an Entity is a string PyStr(s), a list of strings      *)
(* PyList(l), a Reference, a list of References or a Relationship.  The    *)
(* entities live in a heap, because a term that is replaced in             *)
(* OBOParser.terms stays in the children lists that hold it.               *)
(***************************************************************************)
MaxLines == 5        \* lines read from one handle

Whitespace == {" ", "\t"}

RECURSIVE lstrip(_)
lstrip(s) == IF s # <<>> /\ Head(s) \in Whitespace THEN lstrip(Tail(s)) ELSE s
RECURSIVE rstrip(_)
rstrip(s) ==
    IF s # <<>> /\ s[Len(s)] \in Whitespace THEN rstrip(SubSeq(s, 1, Len(s) - 1)) ELSE s
\* str.strip()
strip(s) == rstrip(lstrip(s))

\* the position of the first occurrence of character c in s (0: none)
find(s, c) ==
    IF \E i \in 1..Len(s) : s[i] = c
    THEN CHOOSE i \in 1..Len(s) : s[i] = c /\ \A j \in 1..(i - 1) : s[j] # c
    ELSE 0

\* str.partition(sep): <<head, sep, tail>>, or <<s, "", "">> without sep
partition(s, sep) ==
    IF find(s, sep) = 0 THEN <<s, <<>>, <<>>>>
    ELSE <<SubSeq(s, 1, find(s, sep) - 1), <<sep>>, SubSeq(s, find(s, sep) + 1, Len(s))>>

\* str.split(sep): the list of the parts
RECURSIVE split(_, _)
split(s, sep) ==
    IF find(s, sep) = 0 THEN <<s>>
    ELSE <<SubSeq(s, 1, find(s, sep) - 1)>> \o split(SubSeq(s, find(s, sep) + 1, Len(s)), sep)

PyList(l) == <<"list", l>>
IsList(v) == v[1] = "list"
Ref(accession, comment) == <<"ref", accession, comment>>
RefList(l) == <<"refs", l>>
Rel(predicate, accession, comment) == <<"rel", predicate, accession, comment>>

\* Reference.fromstring: "accession ! comment", or the whole string
Reference_fromstring(string) ==
    LET parts == split(string, "!")
    IN IF Len(parts) = 2 THEN Ref(strip(parts[1]), PyStr(strip(parts[2])))
       ELSE Ref(string, None)

\* the last position of the run of non-whitespace characters that starts at
\* position i of s (i - 1 when there is none): what \S+ takes
RECURSIVE RunEnd(_, _)
RunEnd(s, i) ==
    IF i > Len(s) \/ s[i] \in Whitespace THEN i - 1 ELSE RunEnd(s, i + 1)

\* a match of (?P<predicate>\S+):?\s(?P<accession>\S+)\s(?:!\s(?P<comment>.*))
\* that starts at position i of s, the two \S+ groups ending at e1 and e2.
\* \S+ is greedy and is followed by \s, so each group takes a whole run: the
\* colon that ends the first run belongs to the predicate, and `:?` matches
\* nothing.
MatchRuns(s, i, e1, e2) ==
    [ok |-> /\ e1 >= i
            /\ e1 + 1 <= Len(s) /\ s[e1 + 1] \in Whitespace
            /\ e2 >= e1 + 2
            /\ e2 + 3 <= Len(s)
            /\ s[e2 + 1] \in Whitespace /\ s[e2 + 2] = "!" /\ s[e2 + 3] \in Whitespace,
     rel |-> Rel(SubSeq(s, i, e1), SubSeq(s, e1 + 2, e2), PyStr(SubSeq(s, e2 + 4, Len(s))))]
MatchAt(s, i) == MatchRuns(s, i, RunEnd(s, i), RunEnd(s, RunEnd(s, i) + 2))

\* Relationship.fromstring: re.search takes the leftmost match; without a
\* match, None.groupdict() raises AttributeError (ok is FALSE)
Relationship_fromstring(string) ==
    IF \E i \in 1..Len(string) : MatchAt(string, i).ok
    THEN MatchAt(string, CHOOSE i \in 1..Len(string) :
                    MatchAt(string, i).ok /\ \A j \in 1..(i - 1) : ~MatchAt(string, j).ok)
    ELSE [ok |-> FALSE, rel |-> Rel(<<>>, <<>>, None)]

str_id == <<"i","d">>
str_is_a == <<"i","s","_","a">>
str_relationship == <<"r","e","l","a","t","i","o","n","s","h","i","p">>

\* Entity(vocabulary, **attributes): a dict with a list of children
OBOEntity(fields) == [fields |-> fields, children |-> <<>>]

\* the key a value is stored under in a dict: References and Relationships
\* hash and compare as their accession
DictKey(v) == IF IsStr(v) THEN v[2] ELSE IF v[1] = "ref" THEN v[2] ELSE v[3]

\* for term in is_as: self[term].children.append(entity), from the i-th
\* reference on; a parent that is not in terms raises KeyError and ends the loop
RECURSIVE LinkParents(_, _, _, _, _)
LinkParents(refs, i, hp, tm, e) ==
    IF i > Len(refs) THEN [heap |-> hp, ok |-> TRUE]
    ELSE IF DictKey(refs[i]) \notin DOMAIN tm THEN [heap |-> hp, ok |-> FALSE]
    ELSE LinkParents(refs, i + 1,
                     [hp EXCEPT ![tm[DictKey(refs[i])]].children = Append(@, e)], tm, e)

\* entity[rel.predicate] = rel for each relationship, in order
RECURSIVE SetRelationships(_, _, _)
SetRelationships(fields, rels, i) ==
    IF i > Len(rels) THEN fields
    ELSE SetRelationships(Put(fields, rels[i][2], rels[i]), rels, i + 1)

\* the fields of an entity keeping the first value of each field only
EntityFields_first_value(ct) == [k \in DOMAIN ct |-> PyStr(ct[k][1])]

\* {k: v[0] if len(v) == 1 else v for k, v in self.current_term.items()}
EntityFields(ct) ==
    [k \in DOMAIN ct |-> IF Len(ct[k]) = 1 THEN PyStr(ct[k][1]) ELSE PyList(ct[k])]

\* the References of an is_a field, one or several (none without the field)
IsAs(fields) ==
    IF str_is_a \notin DOMAIN fields THEN <<>>
    ELSE IF IsStr(fields[str_is_a]) THEN <<Reference_fromstring(fields[str_is_a][2])>>
    ELSE [i \in 1..Len(fields[str_is_a][2]) |-> Reference_fromstring(fields[str_is_a][2][i])]

\* the first try block of pack, for the entity at position e of the heap:
\* entity['is_a'] = is_as is reached only when every parent was found
\* (except KeyError: pass)
pack_is_a(fields, is_as, linked) ==
    [heap |-> linked.heap,
     fields |-> IF str_is_a \in DOMAIN fields /\ linked.ok
                THEN Put(fields, str_is_a,
                         IF IsStr(fields[str_is_a]) THEN is_as[1] ELSE RefList(is_as))
                ELSE fields]

\* the strings of a relationship field, one or several (none without the field)
Relationships(fields) ==
    IF str_relationship \notin DOMAIN fields THEN <<>>
    ELSE IF IsList(fields[str_relationship]) THEN fields[str_relationship][2]
    ELSE <<fields[str_relationship][2]>>

\* the second try block of pack: every relationship is parsed before the
\* first is stored; a string that does not match raises AttributeError
pack_relationships(fields, parsed) ==
    [ok |-> \A i \in 1..Len(parsed) : parsed[i].ok,
     fields |-> IF \A i \in 1..Len(parsed) : parsed[i].ok
                THEN SetRelationships(fields, [i \in 1..Len(parsed) |-> parsed[i].rel], 1)
                ELSE fields]

\* self.terms[entity['id']] = entity, for the entity at position e
pack_store(hp, tm, e, rels) ==
    IF ~rels.ok
    THEN [heap |-> [hp EXCEPT ![e].fields = rels.fields], terms |-> tm,
          error |-> "AttributeError"]
    ELSE IF str_id \notin DOMAIN rels.fields
    THEN [heap |-> [hp EXCEPT ![e].fields = rels.fields], terms |-> tm, error |-> "KeyError"]
    ELSE IF IsList(rels.fields[str_id])
    THEN [heap |-> [hp EXCEPT ![e].fields = rels.fields], terms |-> tm, error |-> "TypeError"]
    ELSE [heap |-> [hp EXCEPT ![e].fields = rels.fields],
          terms |-> Put(tm, DictKey(rels.fields[str_id]), e), error |-> "none"]

pack_linked(fields, is_as, hp, tm, e) ==
    pack_is_a(fields, is_as, LinkParents(is_as, 1, Append(hp, OBOEntity(fields)), tm, e))

pack_entity(linked, tm, e) ==
    pack_store(linked.heap, tm, e,
               pack_relationships(linked.fields,
                   [i \in 1..Len(Relationships(linked.fields)) |->
                        Relationship_fromstring(Relationships(linked.fields)[i])]))

\* OBOParser.pack() with a current_term that is not None: the heap and the
\* terms afterwards, and the exception that leaves pack ("none": it returns)
pack(ct, hp, tm) ==
    pack_entity(pack_linked(EntityFields(ct), IsAs(EntityFields(ct)), hp, tm, Len(hp) + 1),
                tm, Len(hp) + 1)

\* the lines a handle yields
line_Term == <<"[","T","e","r","m","]">>
line_Typedef == <<"[","T","y","p","e","d","e","f","]">>
Lines ==
    { line_Term, line_Typedef, <<>>,
      <<"i","d",":"," ","A">>,
      <<" ","i","d",":","B"," ">>,
      <<"i","s","_","a",":"," ","A"," ","!"," ","a">>,
      <<"r","e","l","a","t","i","o","n","s","h","i","p",":"," ","p",":"," ","A"," ","!"," ","c">>,
      <<"r","e","l","a","t","i","o","n","s","h","i","p",":"," ","p"," ","A">>,
      <<"j","u","n","k">> }

InitOBO ==
    /\ NoDocument /\ NoVocabulary /\ NoResolver /\ NoModule
    /\ current_term = None
    /\ heap = <<>>
    /\ terms = EmptyDict
    /\ status = "parsing"
    /\ nlines = 0
    /\ lines = <<>>

\* what self.pack() leaves, r, when parse goes on with current_term = next
\* and status = after unless pack raised
Packed(r, next, after) ==
    /\ heap' = r.heap
    /\ terms' = r.terms
    /\ status' = IF r.error = "none" THEN after ELSE r.error
    /\ current_term' = IF r.error = "none" THEN next ELSE current_term

\* if self.current_term is not None: self.pack(); self.current_term = next
PackThen(next) ==
    IF current_term # None THEN Packed(pack(current_term[2], heap, terms), next, status)
    ELSE current_term' = next /\ UNCHANGED <<heap, terms, status>>

\* self.current_term[key].append(val.strip()) for the parts of a field line
AppendField(d, parts) ==
    PyDict(Put(d, parts[1], IF parts[1] \in DOMAIN d THEN Append(d[parts[1]], strip(parts[3]))
                            ELSE <<strip(parts[3])>>))

\* the body of the loop with a [Typedef] header that starts an accumulator
parse_stripped_typedef_opens(l) ==
    IF l = <<>> THEN UNCHANGED <<current_term, heap, terms, status>>
    ELSE IF l = line_Typedef \/ l = line_Term THEN PackThen(PyDict(EmptyDict))
    ELSE IF current_term = None THEN UNCHANGED <<current_term, heap, terms, status>>
    ELSE /\ current_term' = AppendField(current_term[2], partition(l, ":"))
         /\ UNCHANGED <<heap, terms, status>>

\* the body of the loop of OBOParser.parse for a stripped line l
parse_stripped(l) ==
    IF l = <<>> THEN UNCHANGED <<current_term, heap, terms, status>>
    ELSE IF l = line_Typedef THEN PackThen(None)
    ELSE IF l = line_Term THEN PackThen(PyDict(EmptyDict))
    ELSE IF current_term = None THEN UNCHANGED <<current_term, heap, terms, status>>
    ELSE /\ current_term' = AppendField(current_term[2], partition(l, ":"))
         /\ UNCHANGED <<heap, terms, status>>

\* one turn of the loop of OBOParser.parse: for line in self.handle
parse_line(line) ==
    /\ status = "parsing"
    /\ nlines < MaxLines
    /\ nlines' = nlines + 1
    /\ lines' = Append(lines, line)
    /\ parse_stripped(strip(line))
    /\ UNCHANGED <<docVars, cvVars, resolverVars, moduleVars>>

\* the handle is exhausted: the final self.pack() of OBOParser.parse
parse_end ==
    /\ status = "parsing"
    /\ IF current_term = None
       THEN status' = "done" /\ UNCHANGED <<current_term, heap, terms>>
       ELSE Packed(pack(current_term[2], heap, terms), None, "done")
    /\ UNCHANGED <<nlines, lines, docVars, cvVars, resolverVars, moduleVars>>

NextOBO ==
    \/ \E line \in Lines : parse_line(line)
    \/ parse_end

SpecOBO == InitOBO /\ [][NextOBO]_vars

(***************************************************************************)
(* Claims about OBOParser                                                  *)
(***************************************************************************)
\* the entities stored in OBOParser.terms
Inserted == {heap[terms[i]] : i \in DOMAIN terms}

\* C5: a term whose is_a names an accession that is not defined is never
\* inserted in the graph: every term in terms that has an is_a field has it
\* as a Reference (or a list of References), which pack stores only after
\* the term was added to the children of each parent it names.
C5_DanglingParentIsFatal ==
    \A ent \in Inserted :
        str_is_a \in DOMAIN ent.fields => ent.fields[str_is_a][1] \in {"ref", "refs"}

(***************************************************************************)
(* Claims about VocabularyResolver.param                                   *)
(***************************************************************************)
ParamCalled == pcall.op = "param" /\ ~IsParam(pcall.name)
\* the name and cv_ref the call works with, a mapping's included
Given == Destructure(pcall.name, pcall.value, pcall.cv_ref, pcall.kwargs)
\* the positions of the configured vocabularies in which a name is found
Matches(name) ==
    {i \in 1..Len(vocabularies) : CV_getitem(vocabularies[i], name).kind = "term"}
First(S) == CHOOSE i \in S : \A j \in S : i <= j
\* the parameter comes from the term found for name in the i-th vocabulary
FromVocabulary(p, i, name) ==
    LET t == CV_getitem(vocabularies[i], name).term
    IN /\ p.tag = "cvParam"
       /\ Get(p.attrs, "name") = PyStr(t.name)
       /\ Get(p.attrs, "accession") = PyStr(t.id)
       /\ Get(p.attrs, "cvRef") = vocabularies[i].id

\* C3: when param is called without a cv_ref (and without ref or accession
\* keywords) and the name is found in more than one configured vocabulary,
\* the parameter's name, accession and cvRef are those of the first
\* vocabulary of the list that has the name.
C3_FirstMatchWins ==
    (/\ ParamCalled
     /\ Given.cv_ref = None
     /\ DOMAIN pcall.kwargs = {}
     /\ Cardinality(Matches(Given.name)) > 1)
        => FromVocabulary(pcall.result, First(Matches(Given.name)), Given.name)

\* C4: when param is called without a cv_ref and the name is found in a
\* configured vocabulary (exactly one, so that the order of the list plays no
\* part), the parameter is a cvParam with the term's name, the term's id as
\* accession and the vocabulary's id as cvRef, whatever the other arguments.
C4_ResolvedTermFillsParameter ==
    (/\ ParamCalled
     /\ Given.cv_ref = None
     /\ Cardinality(Matches(Given.name)) = 1)
        => FromVocabulary(pcall.result, First(Matches(Given.name)), Given.name)

\* C11: param(name, value) with a string name, no cv_ref and no keywords,
\* on a list of vocabularies none of which has the name (the empty list
\* included), returns a userParam whose attributes are the given name and
\* the given value and nothing else.
C11_FreeTextFallback ==
    (/\ ParamCalled
     /\ IsStr(pcall.name)
     /\ pcall.cv_ref = None
     /\ DOMAIN pcall.kwargs = {}
     /\ Matches(pcall.name) = {})
        => /\ pcall.result.tag = "userParam"
           /\ DOMAIN pcall.result.attrs = {"name", "value"}
           /\ pcall.result.attrs["name"] = pcall.name
           /\ pcall.value # None => pcall.result.attrs["value"] = pcall.value

\* a free-text parameter with a value, made on a list that is not empty
C11_Witness ==
    /\ ParamCalled
    /\ IsStr(pcall.name) /\ pcall.cv_ref = None /\ DOMAIN pcall.kwargs = {}
    /\ vocabularies # <<>> /\ Matches(pcall.name) = {}
    /\ pcall.value = PyInt(5)
    /\ pcall.result.tag = "userParam"

TermCalled == pcall.op = "term"

\* C12: term(name) returns the term of the first vocabulary of the list whose
\* look-up succeeds, having loaded no vocabulary behind it; when no look-up
\* succeeds (the empty list included) it raises KeyError(name).
C12_TermFirstSuccess ==
    TermCalled =>
        IF Matches(pcall.name) = {}
        THEN pcall.result.kind = "KeyError" /\ pcall.result.arg = pcall.name
        ELSE /\ pcall.result = CV_getitem(vocabularies[First(Matches(pcall.name))], pcall.name)
             /\ pcall.n = 1 => \A i \in loaded : i <= First(Matches(pcall.name))

\* a term found in two vocabularies of the list, which differ
C12_Witness ==
    /\ TermCalled
    /\ Cardinality(Matches(pcall.name)) > 1
    /\ vocabularies[1] # vocabularies[2]
    /\ pcall.result.kind = "term"

(***************************************************************************)
(* Claims about Relationship.fromstring and the fields of a term           *)
(***************************************************************************)
\* the entities pack has made, inserted in terms or not
Packed_entities == {heap[i] : i \in 1..Len(heap)}
Among(l, x) == \E i \in 1..Len(l) : l[i] = x
str_p == <<"p">>
\* the relationship values "p: A ! c" (colon form) and "p A" (no comment)
colon_form == <<"p",":"," ","A"," ","!"," ","c">>
without_comment == <<"p"," ","A">>

\* C13: a term with the relationship value "p: A ! c" has the field p, a
\* Relationship of predicate "p" (without the colon), accession "A" and
\* comment "c".
C13_ColonFormPredicate ==
    \A ent \in Inserted :
        Among(Relationships(ent.fields), colon_form)
            => /\ str_p \in DOMAIN ent.fields
               /\ ent.fields[str_p] = Rel(str_p, <<"A">>, PyStr(<<"c">>))

\* C14: a relationship value "p A", without a comment, is accepted: the
\* entity gets the field p, a Relationship of predicate "p" and accession "A"
\* without comment, and parse does not end with the AttributeError of a
\* value that did not match.
C14_CommentIsOptional ==
    \A ent \in Packed_entities :
        Among(Relationships(ent.fields), without_comment)
            => /\ status # "AttributeError"
               /\ str_p \in DOMAIN ent.fields
               /\ ent.fields[str_p] = Rel(str_p, <<"A">>, None)

(***************************************************************************)
(* Claims about the stanzas of the input.  Stanzas reads the lines as the  *)
(* format defines them: closed is the list of the [Term] stanzas that a    *)
(* later header has closed, each the list of its field lines, and pending  *)
(* is the [Term] stanza that is still open (None: there is none).          *)
(***************************************************************************)
Open(fieldlines) == <<"open", fieldlines>>
StanzaStep(l, st) ==
    IF l = <<>> THEN st
    ELSE IF l = line_Term \/ l = line_Typedef
    THEN [closed |-> IF st.pending = None THEN st.closed
                     ELSE Append(st.closed, st.pending[2]),
          pending |-> IF l = line_Term THEN Open(<<>>) ELSE None]
    ELSE IF st.pending = None THEN st
    ELSE [closed |-> st.closed, pending |-> Open(Append(st.pending[2], l))]
\* the lines of the input without the whitespace around them
Stripped == [l \in Lines |-> strip(l)]
RECURSIVE Stanzas(_, _, _)
Stanzas(ls, i, st) ==
    IF i > Len(ls) THEN st ELSE Stanzas(ls, i + 1, StanzaStep(Stripped[ls[i]], st))
InputStanzas == Stanzas(lines, 1, [closed |-> <<>>, pending |-> None])

\* the key and the value of a field line
Fields == [l \in {strip(x) : x \in Lines} |-> <<partition(l, ":")[1], strip(partition(l, ":")[3])>>]
FieldKey(l) == Fields[l][1]
FieldValue(l) == Fields[l][2]
\* the positions of the field lines of a stanza that have key k, in order
RECURSIVE Occurrences(_, _, _)
Occurrences(fieldlines, k, i) ==
    IF i > Len(fieldlines) THEN <<>>
    ELSE IF FieldKey(fieldlines[i]) = k
    THEN <<FieldValue(fieldlines[i])>> \o Occurrences(fieldlines, k, i + 1)
    ELSE Occurrences(fieldlines, k, i + 1)
\* the record of a stanza: each key with its values in the order of the lines
RecordOf(fieldlines) ==
    [k \in {FieldKey(fieldlines[i]) : i \in 1..Len(fieldlines)} |->
        Occurrences(fieldlines, k, 1)]

\* the stanzas that parse has emitted when it has read lines and, with
\* status "done", met the end of the input
EmittedStanzas(st) ==
    IF status = "done" /\ st.pending # None THEN Append(st.closed, st.pending[2])
    ELSE st.closed
Running == status \in {"parsing", "done"}

\* the values an entity's field stands for, whether scalar or sequence
ValueCount(v) == IF v[1] \in {"list", "refs"} THEN Len(v[2]) ELSE 1
\* the entity holds the fields of the record and no other (but the
\* Relationship fields pack adds), each with as many values
HoldsRecord(ent, rec) ==
    /\ \A k \in DOMAIN rec : k \in DOMAIN ent.fields /\ ValueCount(ent.fields[k]) = Len(rec[k])
    /\ \A k \in DOMAIN ent.fields : k \in DOMAIN rec \/ ent.fields[k][1] = "rel"
    /\ \A k \in DOMAIN rec :
            /\ IsStr(ent.fields[k]) => ent.fields[k][2] = rec[k][1]
            /\ IsList(ent.fields[k]) => ent.fields[k][2] = rec[k]

\* the entities made so far are the records of the stanzas emitted
EmittedAre(emitted) ==
    /\ Len(heap) = Len(emitted)
    /\ \A i \in 1..Len(heap) : HoldsRecord(heap[i], RecordOf(emitted[i]))
\* the accumulator holds the field lines of the stanza that is open
PendingIs(pending) ==
    IF pending = None THEN current_term = None
    ELSE current_term = PyDict(RecordOf(pending[2]))

StoredAs(v, values) ==
    IF Len(values) = 1
    THEN v \in {PyStr(values[1]), Reference_fromstring(values[1])}
    ELSE v \in {PyList(values),
                RefList([j \in 1..Len(values) |-> Reference_fromstring(values[j])])}
FieldsStoredAs(ent, rec) == \A k \in DOMAIN rec : StoredAs(ent.fields[k], rec[k])
EachStoredAs(emitted) ==
    \A i \in 1..Len(heap) : FieldsStoredAs(heap[i], RecordOf(emitted[i]))

Rendered(accession, ref) ==
    IF IsInt(accession) THEN PyStr(str(ref) \o <<":">> \o str(accession)) ELSE accession

\* C17: when param is given a mapping as name, a value, an accession or a
\* cv_ref that the caller supplies as well is the one of the parameter
\* returned, whatever its truth value (a ref keyword, which names the cvRef
\* itself, set aside).
C17_ExplicitArgumentsWin ==
    (ParamCalled /\ IsDict(pcall.name)) =>
        /\ pcall.value # None => Get(pcall.result.attrs, "value") = pcall.value
        /\ (pcall.cv_ref # None /\ "ref" \notin DOMAIN pcall.kwargs) =>
                Get(pcall.result.attrs, "cvRef") = pcall.cv_ref
        /\ "accession" \in DOMAIN pcall.kwargs =>
                Get(pcall.result.attrs, "accession") =
                    Rendered(pcall.kwargs["accession"], Get(pcall.result.attrs, "cvRef"))

\* C18: param with a cv_ref (so that no vocabulary is consulted) and an
\* accession keyword returns a cvParam of that cvRef whose accession is
\* "cv_ref:n" for an int n, and the accession itself for a string.
C18_AccessionRendering ==
    (/\ ParamCalled
     /\ pcall.cv_ref # None
     /\ "accession" \in DOMAIN pcall.kwargs)
        => /\ pcall.result.tag = "cvParam"
           /\ Get(pcall.result.attrs, "cvRef") = pcall.cv_ref
           /\ Get(pcall.result.attrs, "accession") =
                IF IsInt(pcall.kwargs["accession"])
                THEN PyStr(str(pcall.cv_ref) \o <<":">> \o IntToStr(pcall.kwargs["accession"][2]))
                ELSE pcall.kwargs["accession"]

\* an int accession rendered with the cv_ref of the call
C18_Witness ==
    /\ ParamCalled
    /\ pcall.cv_ref = PyStr(<<"A">>)
    /\ Get(pcall.kwargs, "accession") = PyInt(7)
    /\ Get(pcall.result.attrs, "accession") = PyStr(<<"A", ":", "7">>)

(***************************************************************************)
(* Claims about errors                                                     *)
(***************************************************************************)
\* the positions of the vocabularies that the last call has consulted: param
\* without cv_ref goes through the whole list, term stops at the first success
Consulted ==
    IF pcall.op = "param"
    THEN IF ~IsParam(pcall.name) /\ Given.cv_ref = None THEN 1..Len(vocabularies) ELSE {}
    ELSE IF pcall.op = "term"
    THEN {i \in 1..Len(vocabularies) :
            \A j \in 1..(i - 1) : CV_getitem(vocabularies[j], pcall.name).kind # "term"}
    ELSE {}

\* C19: a call of param or term that consults a vocabulary whose ontology
\* cannot be fetched ends with the error of the fetch: its result is that
\* error, not a parameter, a term or a KeyError.
C19_FetchFailureIsFatal ==
    (\E i \in Consulted : vocabularies[i].fetch # "ok")
        => /\ "kind" \in DOMAIN pcall.result
           /\ pcall.result.kind = "IOError"

\* a line of the input that is no header and not blank, has no colon and
\* stands in a [Term] stanza
WithoutColon(i) ==
    /\ Stripped[lines[i]] \notin {<<>>, line_Term, line_Typedef}
    /\ find(Stripped[lines[i]], ":") = 0
    /\ Stanzas(SubSeq(lines, 1, i - 1), 1, [closed |-> <<>>, pending |-> None]).pending # None

\* C20: a line without a colon in a [Term] stanza ends parse with an error,
\* and is not stored as a field of the term.
C20_LineWithoutColonRejected ==
    \A i \in 1..Len(lines) :
        WithoutColon(i)
            => /\ ~Running
               /\ current_term # None => Stripped[lines[i]] \notin DOMAIN current_term[2]

(***************************************************************************)
(* components.py: the module's shared objects and several documents        *)
(*                                                                         *)
(* Python lists and DocumentContexts are objects: a variable holds a       *)
(* reference, and two holders of the same reference see each other's       *)
(* changes.  lists and contexts are the objects in order of creation, and  *)
(* a reference is a position in them.  A document is a DocumentContext     *)
(* made by ComponentDispatcher(); the components of a document are         *)
(* constructed with that context, or without a context argument, whose     *)
(* default is NullMap.                                                     *)
(***************************************************************************)
MaxDocuments == 2       \* DocumentContexts made besides NullMap
MaxConstructions == 2   \* calls made on behalf of the documents

\* default_cv_list: the first list object
default_cv_list == 1
\* NullMap = DocumentContext(): the first context object
NullMap == 1
\* the import of the module: no document
Import == 0

str_Person == <<"P","e","r","s","o","n">>
str_Organization == <<"O","r","g","a","n","i","z","a","t","i","o","n">>
DEFAULT_CONTACT_ID == PyStr(<<"P","E","R","S","O","N","_","D","O","C","_","O","W","N","E","R">>)
DEFAULT_ORGANIZATION_ID == PyStr(<<"O","R","G","_","D","O","C","_","O","W","N","E","R">>)

\* the ids of the cv elements of default_cv_list
DefaultVocabularies == <<"PSI-MS", "UO">>
\* the vocabularies arguments given to ComponentDispatcher
VocabularyArguments == {None, PyList(<<"X">>)}

\* VocabularyResolver.__init__: the reference stored in self.vocabularies;
\* a list given by the caller is an object of its own
VocabularyResolver_init(ls, vocabs) ==
    IF vocabs = None
    THEN [lists |-> ls, vocabularies |-> default_cv_list]
    ELSE [lists |-> Append(ls, vocabs[2]), vocabularies |-> Len(ls) + 1]

\* DocumentContext.__init__: an empty dict with the resolver's list
DocumentContext_init(ls, vocabs) ==
    LET v == VocabularyResolver_init(ls, vocabs)
    IN [lists |-> v.lists, context |-> [vocabularies |-> v.vocabularies, cache |-> EmptyDict]]

\* NullMap after DEFAULT_PERSON = Person() and DEFAULT_ORGANIZATION = Organization()
ImportedCache ==
    SetItem(SetItem(EmptyDict, str_Person, DEFAULT_CONTACT_ID,
                    TagBase_init(EmptyDict, str_Person, DEFAULT_CONTACT_ID).id),
            str_Organization, DEFAULT_ORGANIZATION_ID, DEFAULT_ORGANIZATION_ID)

\* a reference to a DocumentContext object, as an argument value
ContextRef(c) == <<"context", c>>

\* list.extend on the list object a context refers to
Extend(ls, ref, vocabs) == [ls EXCEPT ![ref] = @ \o vocabs[2]]

\* the vocabulary list a context consults
Vocabularies(ls, ctxs, c) == ls[ctxs[c].vocabularies]

ModuleCall(name, document, ctx, key, refs) ==
    [name |-> name, document |-> document, context |-> ctx, key |-> key, refs |-> refs]

InitModule ==
    /\ NoDocument /\ NoVocabulary /\ NoResolver /\ NoParser
    /\ lists = <<DefaultVocabularies>>
    /\ contexts = <<[DocumentContext_init(lists, None).context EXCEPT !.cache = ImportedCache]>>
    /\ owner = [e \in {<<NullMap, str_Person, DEFAULT_CONTACT_ID>>,
                       <<NullMap, str_Organization, DEFAULT_ORGANIZATION_ID>>} |-> Import]
    /\ mcall = ModuleCall("import", Import, NullMap, None, <<>>)
    /\ ncalls = 0

\* ComponentDispatcher(context=ctx, vocabularies=vocabs)
ComponentDispatcher(ctx, vocabs) ==
    /\ IF ctx = None
       THEN /\ Len(contexts) < 1 + MaxDocuments
            /\ lists' = DocumentContext_init(lists, vocabs).lists
            /\ contexts' = Append(contexts, DocumentContext_init(lists, vocabs).context)
            /\ mcall' = ModuleCall("ComponentDispatcher", Len(contexts) + 1,
                                   Len(contexts) + 1, vocabs, <<>>)
            /\ UNCHANGED ncalls
       ELSE /\ ncalls < MaxConstructions
            /\ lists' = IF vocabs # None
                        THEN Extend(lists, contexts[ctx[2]].vocabularies, vocabs)
                        ELSE lists
            /\ mcall' = ModuleCall("ComponentDispatcher", ctx[2], ctx[2], vocabs, <<>>)
            /\ ncalls' = ncalls + 1
            /\ UNCHANGED contexts
    /\ UNCHANGED <<owner, docVars, cvVars, resolverVars, oboVars>>

\* Software(id=id, context=ctx), constructed for a document
Document_Software(document, id, ctx) ==
    LET el == TagBase_init(counter, str_software, id)
    IN /\ ncalls < MaxConstructions
       /\ contexts' = [contexts EXCEPT ![ctx].cache = SetItem(@, str_Software, id, el.id)]
       /\ owner' = Put(owner, <<ctx, str_Software, id>>, document)
       /\ counter' = el.counter
       /\ mcall' = ModuleCall("Software", document, ctx, id, <<>>)
       /\ ncalls' = ncalls + 1
       /\ UNCHANGED <<lists, context, warnings, entities, declared, op, nops>>
       /\ UNCHANGED <<cvVars, resolverVars, oboVars>>

\* ProcessingMethod(order, software_reference, context=ctx), constructed for a document
Document_ProcessingMethod(document, software_reference, ctx) ==
    LET r == Reference(contexts[ctx].cache, str_Software, software_reference)
        el == TagBase_init(counter, str_processingMethod, None)
    IN /\ ncalls < MaxConstructions
       /\ contexts' = [contexts EXCEPT ![ctx].cache = r.ctx]
       /\ owner' = IF r.ref.stored
                   THEN Put(owner, <<ctx, str_Software, software_reference>>, document)
                   ELSE owner
       /\ warnings' = Warn(warnings, <<r.ref>>)
       /\ counter' = el.counter
       /\ mcall' = ModuleCall("ProcessingMethod", document, ctx, software_reference, <<r.ref>>)
       /\ ncalls' = ncalls + 1
       /\ UNCHANGED <<lists, context, entities, declared, op, nops>>
       /\ UNCHANGED <<cvVars, resolverVars, oboVars>>

\* the documents made so far
Documents == 2..Len(contexts)
\* the context argument of a component of a document: the document's own, or
\* the default when none is passed
ContextArguments(document) == {document, NullMap}

NextModule ==
    \/ \E ctx \in {None} \cup {ContextRef(c) : c \in 1..Len(contexts)},
          vocabs \in VocabularyArguments :
            ComponentDispatcher(ctx, vocabs)
    \/ \E d \in Documents, id \in {None} \cup IntKeys :
            \E ctx \in ContextArguments(d) : Document_Software(d, id, ctx)
    \/ \E d \in Documents, sw \in {None} \cup IntKeys :
            \E ctx \in ContextArguments(d) : Document_ProcessingMethod(d, sw, ctx)

SpecModule == InitModule /\ [][NextModule]_vars

(***************************************************************************)
(* Claims about identifiers and isolation between documents                *)
(***************************************************************************)
\* the elements of one tag type constructed with an integer id or a counted id
SameTagType(e1, e2) ==
    /\ TagOf(e1.component) = TagOf(e2.component)
    /\ (e1.key = None \/ IsInt(e1.key))
    /\ (e2.key = None \/ IsInt(e2.key))

\* C21: among the elements of one tag type constructed with an explicit
\* integer id or a counted id, no two distinct elements have the same
\* generated id string and no two occupy the same symbol-table key.
C21_IdentifierUniqueness ==
    \A e1 \in entities : \A e2 \in entities :
        (e1 # e2 /\ SameTagType(e1, e2)) => (e1.id # e2.id /\ e1.key # e2.key)

\* C22: ComponentDispatcher(context, vocabularies) with an existing context
\* changes the vocabulary list of that context only: the list every other
\* DocumentContext consults and the module's default_cv_list stay as they were.
C22_VocabularyListIsolation ==
    [][(mcall'.name = "ComponentDispatcher" /\ ncalls' = ncalls + 1) =>
            /\ \A c \in 1..Len(contexts) :
                    c # mcall'.context =>
                        Vocabularies(lists', contexts', c) = Vocabularies(lists, contexts, c)
            /\ lists'[default_cv_list] = lists[default_cv_list]]_vars

\* the entry a look-up of (type_name, key) in context c finds, if there is one
Observes(c, type_name, key) ==
    /\ type_name \in DOMAIN contexts[c].cache
    /\ key \in DOMAIN contexts[c].cache[type_name]

\* C23: a reference look-up made while constructing a component for one
\* document never finds an entry that was registered, or a placeholder that
\* was synthesized, while constructing components for another document,
\* whether or not the components were given an explicit context.
C23_SymbolTableIsolation ==
    [][(mcall'.name = "ProcessingMethod" /\ ncalls' = ncalls + 1) =>
            (Observes(mcall'.context, str_Software, mcall'.key) =>
                owner[<<mcall'.context, str_Software, mcall'.key>>] = mcall'.document)]_vars

(***************************************************************************)
(* Claims about the term graph                                             *)
(***************************************************************************)
\* the References the is_a of an entity holds
ParentRefs(ent) ==
    IF str_is_a \notin DOMAIN ent.fields THEN <<>>
    ELSE IF ent.fields[str_is_a][1] = "ref" THEN <<ent.fields[str_is_a]>>
    ELSE IF ent.fields[str_is_a][1] = "refs" THEN ent.fields[str_is_a][2]
    ELSE <<>>
\* how many of them name the accession p
NamesParent(ent, p) == Cardinality({j \in 1..Len(ParentRefs(ent)) : ParentRefs(ent)[j][2] = p})
\* how many times the entity at position c is in a list of children
ChildCount(children, c) == Cardinality({i \in 1..Len(children) : children[i] = c})
\* the entity at position c is the term stored under its own id
StoredUnderOwnId(c) ==
    /\ str_id \in DOMAIN heap[c].fields
    /\ IsStr(heap[c].fields[str_id])
    /\ DictKey(heap[c].fields[str_id]) \in DOMAIN terms
    /\ terms[DictKey(heap[c].fields[str_id])] = c

\* C24: after a parse that completed without error, every entity in the
\* child list of a term P is the term stored under its own id and holds an
\* is_a reference to P; and every term whose is_a names P is in P's child
\* list exactly once for each time it lists P.
C24_ParentChildConsistency ==
    status = "done" =>
        \A p \in DOMAIN terms :
            /\ \A i \in 1..Len(heap[terms[p]].children) :
                    /\ StoredUnderOwnId(heap[terms[p]].children[i])
                    /\ NamesParent(heap[heap[terms[p]].children[i]], p) > 0
            /\ \A q \in DOMAIN terms :
                    NamesParent(heap[terms[q]], p) > 0 =>
                        ChildCount(heap[terms[p]].children, terms[q])
                            = NamesParent(heap[terms[q]], p)
====
